---- MODULE Spec2Model ----
(***************************************************************************)
(* ADS-B radar display: the aircraft registry (radar/aircraft.py), the UI   *)
(* tick that drives it (radar/radar.py, ADSBRadarApp.update_frame), the    *)
(* controls of the window, the telemetry source with its fetch thread      *)
(* (radar/datasource.py) and the zoom and scale functions.                 *)
(*                                                                         *)
(* Python values are tagged: None, a string or a number.  A raw record is  *)
(* a function from the field names it carries to values, dict.get is Get.  *)
(* Positions lie on the observer's meridian (every truthy longitude of the *)
(* inputs is the observer's), where the haversine distance is the arc      *)
(* R * dlat; km and pixels are integers (floats rounded down).             *)
(***************************************************************************)
EXTENDS Integers, Sequences, FiniteSets, TLC

VARIABLES
    aircrafts,              \* Aircrafts.aircrafts: hexid -> Aircraft
    aircraft_canvas_items,  \* keys of Aircrafts.aircraft_canvas_items
    canvas_ids,             \* keys of Aircrafts.canvas_ids
    aircraft_trails,        \* Aircrafts.aircraft_trails: hexid -> polyline points
    prediction_lines,       \* keys of Aircrafts.prediction_lines
    label_leaders,          \* keys of Aircrafts.label_leaders
    now,                    \* time.time(), whole seconds
    last_op,                \* history: what the last step did
    trail_length,           \* ADSBRadarApp.trail_length (IntVar of the Spinbox)
    trail_log,              \* history: every sample passed to update_trail
    running,                \* Dump1090Source.running
    alive,                  \* Dump1090Source.alive
    last_seen_time,         \* Dump1090Source.last_seen_time
    latest_data,            \* Dump1090Source.latest_data, the shared slot
    lock,                   \* holder of Dump1090Source.lock ("" = free)
    fetch_pc,               \* position of the fetch thread in _loop
    fetch_data,             \* the local `data` / `raw_list` of the fetch thread
    app_running,            \* ADSBRadarApp.running
    prev_update,            \* ADSBRadarApp.prev_update
    paused,                 \* ADSBRadarApp.paused
    ui_pc,                  \* position of the UI thread in update_frame
    scheduled,              \* a root.after callback of schedule_update is pending
    src_op,                 \* history: what the last step of a thread did
    call,                   \* the last call of a function, with its result
    canvas                  \* the Tk canvas: the items of each aircraft

regvars == <<aircrafts, aircraft_canvas_items, canvas_ids, aircraft_trails,
             prediction_lines, label_leaders>>
srcvars == <<running, alive, last_seen_time, latest_data, lock, fetch_pc,
             fetch_data>>
appvars == <<app_running, prev_update, paused, ui_pc, scheduled>>

vars == <<regvars, now, last_op, trail_length, trail_log, srcvars, appvars,
          src_op, call, canvas>>

---------------------------------------------------------------------------
(* Bounds and program constants *)

MaxNow == 61          \* the clock stops advancing here
MaxPolyline == 3      \* points per trail polyline before ticks stop
TrailLength == 2      \* ADSBRadarApp.trail_length (TRAIL_MAX scaled down)

STALE_SECONDS == 60   \* clean_data: time.time() - ac.last_behavior > 60
SEEN_LIMIT == 60      \* clean_data: ac.last_seen > 60
MAX_RANGE_KM == 200
CANVAS_SIZE == 800
RADAR_LAT == 48
RADAR_LON == 2
MARGIN == 10          \* km_to_pixels: margin

MaxCapacity == 3      \* largest trail capacity an Aircraft is created with
MaxAppends == 4       \* update_trail calls on one Aircraft

ClockSteps == {59, 61}

---------------------------------------------------------------------------
(* Python values *)

None == [t |-> "None"]
S(s) == [t |-> "str", s |-> s]
N(n) == [t |-> "num", n |-> n]

\* a list (a JSON array) and a non-empty dict (a JSON object)
L(seq) == [t |-> "list", v |-> seq]
Dict == [t |-> "dict"]

IsNum(v) == v.t = "num"

\* bool(v)
Truthy(v) ==
    CASE v.t = "None" -> FALSE
      [] v.t = "str" -> v.s # ""
      [] v.t = "num" -> v.n # 0
      [] v.t = "list" -> v.v # <<>>
      [] v.t = "dict" -> TRUE

\* a or b
Or(a, b) == IF Truthy(a) THEN a ELSE b

\* raw.get(f)
Get(raw, f) == IF f \in DOMAIN raw THEN raw[f] ELSE None

\* raw.get(f, d)
GetD(raw, f, d) == IF f \in DOMAIN raw THEN raw[f] ELSE d

\* str(v)
Str(v) ==
    CASE v.t = "None" -> S("None")
      [] v.t = "str" -> v
      [] v.t = "num" -> S(ToString(v.n))

\* s.upper(), on the strings of the inputs
Upper(v) ==
    CASE v = S("a3") -> S("A3")
      [] v = S("b1") -> S("B1")
      [] OTHER -> v

---------------------------------------------------------------------------
(* Inputs: the raw records a snapshot is made of *)

RecA1 == ("hex" :> S("A1")) @@ ("lat" :> N(48)) @@ ("lon" :> N(2))
         @@ ("altitude" :> N(10000))
RecA1b == ("hex" :> S("A1")) @@ ("lat" :> N(49)) @@ ("lon" :> N(2))
          @@ ("altitude" :> N(10000)) @@ ("flight" :> S("AFR1"))
          @@ ("reg" :> S("F-GKXA")) @@ ("category" :> S("a3"))
RecFar == ("hex" :> S("B2")) @@ ("lat" :> N(51)) @@ ("lon" :> N(2))
          @@ ("flight" :> S("BAW2")) @@ ("category" :> S("b1"))
RecAnon == ("lat" :> N(49)) @@ ("lon" :> N(2)) @@ ("altitude" :> N(5000))
           @@ ("seen" :> N(90))
RecSeen == ("hex" :> S("D4")) @@ ("lat" :> N(48)) @@ ("lon" :> N(2))
           @@ ("altitude" :> N(3000)) @@ ("seen" :> N(90))
RecLatOnly == ("hex" :> S("C3")) @@ ("lat" :> N(49))
RecLonZero == ("hex" :> S("C3")) @@ ("lat" :> N(49)) @@ ("lon" :> N(0))

Records == {RecA1, RecA1b, RecFar, RecAnon, RecLatOnly, RecLonZero}

\* the snapshots a fetch returns
Snapshots ==
    {<<>>, <<RecA1>>, <<RecA1b>>, <<RecFar>>, <<RecAnon>>,
     <<RecLatOnly, RecLonZero>>, <<RecA1, RecA1b>>, <<RecA1, RecFar>>}

---------------------------------------------------------------------------
(* radar.py: geometry, on the observer's meridian *)

Abs(i) == IF i < 0 THEN -i ELSE i

\* 100 * sin of 0, 15, ..., 90 degrees
SIN_15 == <<0, 26, 50, 71, 87, 97, 100>>

\* 100 * math.sin(radians(d)), d a multiple of 15 degrees: sin is odd,
\* 360-periodic and sin(180 - d) = sin(d)
Sin100(d) ==
    LET m == d % 360
        h == IF m >= 180 THEN m - 180 ELSE m
        q == IF h > 90 THEN 180 - h ELSE h
        v == SIN_15[q \div 15 + 1]
    IN IF m >= 180 THEN 0 - v ELSE v

\* 100 * math.cos(radians(d))
Cos100(d) == Sin100(90 - d)

\* 10000 * sin(t / 2) ** 2 for t = 0, 1, ..., 180 degrees
SIN_HALF_SQ ==
    <<      0, 1, 3, 7, 12, 19, 27, 37, 49, 62, 76, 92, 109, 128, 149, 170, 194,
      218, 245, 272, 302, 332, 364, 397, 432, 468, 506, 545, 585, 627, 670,
      714, 760, 807, 855, 904, 955, 1007, 1060, 1114, 1170, 1226, 1284,
      1343, 1403, 1464, 1527, 1590, 1654, 1720, 1786, 1853, 1922, 1991,
      2061, 2132, 2204, 2277, 2350, 2425, 2500, 2576, 2653, 2730, 2808,
      2887, 2966, 3046, 3127, 3208, 3290, 3372, 3455, 3538, 3622, 3706,
      3790, 3875, 3960, 4046, 4132, 4218, 4304, 4391, 4477, 4564, 4651,
      4738, 4826, 4913, 5000, 5087, 5174, 5262, 5349, 5436, 5523, 5609,
      5696, 5782, 5868, 5954, 6040, 6125, 6210, 6294, 6378, 6462, 6545,
      6628, 6710, 6792, 6873, 6954, 7034, 7113, 7192, 7270, 7347, 7424,
      7500, 7575, 7650, 7723, 7796, 7868, 7939, 8009, 8078, 8147, 8214,
      8280, 8346, 8410, 8473, 8536, 8597, 8657, 8716, 8774, 8830, 8886,
      8940, 8993, 9045, 9096, 9145, 9193, 9240, 9286, 9330, 9373, 9415,
      9455, 9494, 9532, 9568, 9603, 9636, 9668, 9698, 9728, 9755, 9782,
      9806, 9830, 9851, 9872, 9891, 9908, 9924, 9938, 9951, 9963, 9973,
      9981, 9988, 9993, 9997, 9999, 10000>>

\* 2 * asin(sqrt(a)) in whole degrees, a in 1/10000: the largest angle whose
\* sin(t / 2) ** 2 does not exceed a
ArcDegrees(a) ==
    CHOOSE t \in 0..180 :
        /\ SIN_HALF_SQ[t + 1] <= a
        /\ t < 180 => SIN_HALF_SQ[t + 2] > a

\* haversine_km, the term a in 1/10000:
\* sin(dlat / 2) ** 2 + cos(lat1) * cos(lat2) * sin(dlon / 2) ** 2
haversine_a(lat1, lon1, lat2, lon2) ==
    Sin100((lat2 - lat1) \div 2) * Sin100((lat2 - lat1) \div 2)
    + (Cos100(lat1) * Cos100(lat2)
         * Sin100((lon2 - lon1) \div 2) * Sin100((lon2 - lon1) \div 2)) \div 10000

\* haversine_km with cos(lat1) taken twice in place of cos(lat1) * cos(lat2)
haversine_km_lat1(lat1, lon1, lat2, lon2) ==
    LET sdlat == Sin100((lat2 - lat1) \div 2)
        sdlon == Sin100((lon2 - lon1) \div 2)
        a == sdlat * sdlat + (Cos100(lat1) * Cos100(lat1) * sdlon * sdlon) \div 10000
    IN (((6371 * 3142) \div 1000) * ArcDegrees(a)) \div 180

\* haversine_km: 2 R asin(sqrt(a)) is the arc R * |dlat| when dlon = 0;
\* elsewhere a is computed as the code does, on coordinates whose
\* differences are multiples of 30 degrees
haversine_km(lat1, lon1, lat2, lon2) ==
    CASE lon1 = lon2 -> (6371 * 3142 * Abs(lat2 - lat1)) \div (180 * 1000)
      [] OTHER ->
            (((6371 * 3142) \div 1000)
                * ArcDegrees(haversine_a(lat1, lon1, lat2, lon2))) \div 180

\* bearing_deg: atan2(0, sin(lat2 - lat1)) is 0 (north, also for equal
\* points) or 180 (south) when dlon = 0
bearing_deg(lat1, lon1, lat2, lon2) ==
    CASE lon1 = lon2 -> IF lat2 >= lat1 THEN 0 ELSE 180

\* ADSBRadarApp.km_to_pixels
km_to_pixels(km, max_range) ==
    LET radius_px == (CANVAS_SIZE \div 2) - MARGIN
    IN IF max_range > 0 THEN (km * radius_px) \div max_range
       ELSE km * radius_px

\* ADSBRadarApp.geo_to_canvas: sin(brg) = 0, cos(brg) = 1 or -1
geo_to_canvas(lat, lon, max_range) ==
    LET dkm == haversine_km(RADAR_LAT, RADAR_LON, lat, lon)
        brg == bearing_deg(RADAR_LAT, RADAR_LON, lat, lon)
        dist_px == km_to_pixels(dkm, max_range)
    IN [x |-> CANVAS_SIZE \div 2,
        y |-> IF brg = 0 THEN (CANVAS_SIZE \div 2) - dist_px
              ELSE (CANVAS_SIZE \div 2) + dist_px,
        dkm |-> dkm, brg |-> brg]

---------------------------------------------------------------------------
(* aircraft.py: class Aircraft *)

\* Aircraft.update_from_raw
update_from_raw(ac, raw, t) ==
    [ac EXCEPT
        !.lat = Get(raw, "lat"),
        !.lon = Get(raw, "lon"),
        !.altitude = Or(Or(Or(Get(raw, "altitude"), Get(raw, "alt_baro")),
                           Get(raw, "alt_geom")), Get(raw, "alt")),
        !.speed = Or(Or(Or(Or(Get(raw, "speed"), Get(raw, "groundspeed")),
                           Get(raw, "gs")), Get(raw, "spd")), N(0)),
        !.track = Or(Or(Get(raw, "track"), Get(raw, "heading")), N(0)),
        !.vert_rate = Or(Get(raw, "vert_rate"), N(0)),
        !.last_seen = Or(Or(Get(raw, "seen"), Get(raw, "seen_pos")), N(0)),
        !.last_behavior = t]

\* the attributes an Aircraft has before __init__ assigns them
Unset ==
    [hex |-> "", callsign |-> None, registration |-> None, category |-> None,
     lat |-> None, lon |-> None, altitude |-> None, speed |-> None,
     track |-> None, vert_rate |-> None, last_seen |-> None,
     last_behavior |-> 0, distance_km |-> 0, bearing_deg |-> 0,
     trail |-> <<>>, maxlen |-> 0]

\* Aircraft.__init__ taking self.hex from the record's "hex" field
AircraftInit_rawhex(hexid, raw, max_trails, t) ==
    LET named == [Unset EXCEPT
                    !.hex = Str(Get(raw, "hex")).s,
                    !.callsign = Or(Or(Get(raw, "flight"), Get(raw, "callsign")), S("")),
                    !.registration = Or(Or(Get(raw, "reg"), Get(raw, "registration")), S("")),
                    !.category = Upper(Or(Get(raw, "category"), S("")))]
    IN [update_from_raw(named, raw, t) EXCEPT
            !.distance_km = 0, !.bearing_deg = 0,
            !.trail = <<>>, !.maxlen = max_trails]

\* Aircraft.__init__ without its call of update_from_raw
AircraftInit_noupdate(hexid, raw, max_trails, t) ==
    [Unset EXCEPT
        !.hex = hexid,
        !.callsign = Or(Or(Get(raw, "flight"), Get(raw, "callsign")), S("")),
        !.registration = Or(Or(Get(raw, "reg"), Get(raw, "registration")), S("")),
        !.category = Upper(Or(Get(raw, "category"), S(""))),
        !.maxlen = max_trails]

\* Aircraft.__init__
AircraftInit(hexid, raw, max_trails, t) ==
    LET named == [Unset EXCEPT
                    !.hex = hexid,
                    !.callsign = Or(Or(Get(raw, "flight"), Get(raw, "callsign")), S("")),
                    !.registration = Or(Or(Get(raw, "reg"), Get(raw, "registration")), S("")),
                    !.category = Upper(Or(Get(raw, "category"), S("")))]
    IN [update_from_raw(named, raw, t) EXCEPT
            !.distance_km = 0, !.bearing_deg = 0,
            !.trail = <<>>, !.maxlen = max_trails]

\* Aircraft.update_compute_data
update_compute_data(ac, bearing, distance) ==
    [ac EXCEPT !.bearing_deg = bearing, !.distance_km = distance]

\* deque.append that refuses the new element when the deque is full
DequeAppend_keepold(q, maxlen, e) ==
    IF Len(q) >= maxlen THEN q ELSE Append(q, e)

\* deque.append with maxlen
DequeAppend(q, maxlen, e) ==
    IF maxlen = 0 THEN q
    ELSE IF Len(q) >= maxlen THEN Append(Tail(q), e)
    ELSE Append(q, e)

\* Aircraft.update_trail
update_trail(ac, x, y) ==
    [ac EXCEPT !.trail = DequeAppend(@, ac.maxlen, <<x, y, ac.altitude>>)]

---------------------------------------------------------------------------
(* aircraft.py: class Aircrafts *)

\* line 66 with `or` in place of `and`
HasPosition_either(ac) == Truthy(Get(ac, "lat")) \/ Truthy(Get(ac, "lon"))

\* update_aircrafts, line 66: a record is processed when this holds
HasPosition(ac) == Truthy(Get(ac, "lat")) /\ Truthy(Get(ac, "lon"))

\* update_aircrafts, line 69: the key a record is stored under
Identity(ac) ==
    Or(Or(Or(Get(ac, "hex"), Get(ac, "icao24")), Get(ac, "flight")),
       Str(GetD(ac, "id", S("")))).s

\* Aircrafts.update_aircrafts
RECURSIVE update_aircrafts(_, _, _, _)
update_aircrafts(acs, data, max_trails, t) ==
    IF data = <<>> THEN acs
    ELSE LET ac == Head(data)
             hexid == Identity(ac)
             step == IF ~HasPosition(ac) THEN acs
                     ELSE IF hexid \in DOMAIN acs
                          THEN [acs EXCEPT ![hexid] = update_from_raw(@, ac, t)]
                          ELSE acs @@ (hexid :> AircraftInit(hexid, ac, max_trails, t))
         IN update_aircrafts(step, Tail(data), max_trails, t)

Restrict(f, keys) == [k \in keys |-> f[k]]

\* line 97 with the operands of the subtraction swapped
IsStale_swapped(ac, t) == ac.last_behavior - t > STALE_SECONDS

\* clean_data, line 97
IsStale(ac, t) == t - ac.last_behavior > STALE_SECONDS

\* clean_data, lines 88-110: why an aircraft goes to to_delete ("" = it stays)
DeleteReason(ac, max_range, t) ==
    IF ac.lat = None \/ ac.lon = None THEN "coords"
    ELSE IF IsStale(ac, t) THEN "stale"
    ELSE IF ac.distance_km > max_range THEN "range"
    ELSE IF IsNum(ac.last_seen) /\ ac.last_seen.n > SEEN_LIMIT THEN "seen"
    ELSE ""

\* The six dicts of an Aircrafts object
Registry ==
    [aircrafts |-> aircrafts, aircraft_canvas_items |-> aircraft_canvas_items,
     canvas_ids |-> canvas_ids, aircraft_trails |-> aircraft_trails,
     prediction_lines |-> prediction_lines, label_leaders |-> label_leaders]

\* clean_data, lines 112-139: release the renderer-side entries of the keys
ReleaseItems(r, keys) ==
    [r EXCEPT
        !.aircraft_canvas_items = @ \ keys,
        !.aircraft_trails = Restrict(@, DOMAIN @ \ keys),
        !.prediction_lines = @ \ keys,
        !.canvas_ids = @ \ keys,
        !.label_leaders = @ \ keys]

\* Aircrafts.clean_data.  to_delete starts with the keys of
\* aircraft_canvas_items that have no aircraft; for the first of them the
\* loop releases the items and `del self.aircrafts[hexid]` raises KeyError,
\* which ends the call.
clean_data(r, max_range, t) ==
    LET orphans == r.aircraft_canvas_items \ DOMAIN r.aircrafts
        flagged == {k \in DOMAIN r.aircrafts :
                        DeleteReason(r.aircrafts[k], max_range, t) # ""}
    IN IF orphans # {}
       THEN [reg |-> ReleaseItems(r, {CHOOSE k \in orphans : TRUE}),
             raised |-> TRUE,
             removed |-> <<>>]
       ELSE [reg |-> [ReleaseItems(r, flagged) EXCEPT
                        !.aircrafts = Restrict(@, DOMAIN @ \ flagged)],
             raised |-> FALSE,
             removed |-> [k \in flagged |->
                            [reason |-> DeleteReason(r.aircrafts[k], max_range, t),
                             last_behavior |-> r.aircrafts[k].last_behavior]]]

---------------------------------------------------------------------------
(* radar.py: the per-aircraft loop of ADSBRadarApp.update_frame *)

\* Aircrafts.create_canvas_item
create_canvas_item(r, hexid) ==
    [r EXCEPT !.aircraft_canvas_items = @ \cup {hexid},
              !.canvas_ids = @ \cup {hexid}]

\* the (x, y) of the trail samples
TrailXY(trail) == [i \in 1..Len(trail) |-> <<trail[i][1], trail[i][2]>>]

\* update_frame, lines 746-826, for one aircraft
process_aircraft(r, hexid, max_range) ==
    LET ac == r.aircrafts[hexid]
        g == geo_to_canvas(ac.lat.n, ac.lon.n, max_range)
        computed == update_compute_data(ac, g.brg, g.dkm)
        trailed == update_trail(computed, g.x, g.y)
        trail == trailed.trail
        withItems == IF hexid \in r.aircraft_canvas_items THEN r
                     ELSE create_canvas_item(r, hexid)
        polyline == IF hexid \notin DOMAIN r.aircraft_trails
                    THEN TrailXY(trail)
                    ELSE Append(r.aircraft_trails[hexid],
                                <<trail[Len(trail)][1], trail[Len(trail)][2]>>)
    IN IF g.dkm > max_range
       THEN [r EXCEPT !.aircrafts[hexid] = computed]
       ELSE [withItems EXCEPT
                !.aircrafts[hexid] = trailed,
                !.aircraft_trails =
                    IF Len(trail) >= 2
                    THEN [k \in DOMAIN @ \cup {hexid} |->
                            IF k = hexid THEN polyline ELSE @[k]]
                    ELSE @]

RECURSIVE process_aircrafts(_, _, _)
process_aircrafts(r, keys, max_range) ==
    IF keys = {} THEN r
    ELSE LET hexid == CHOOSE k \in keys : TRUE
         IN process_aircrafts(process_aircraft(r, hexid, max_range),
                              keys \ {hexid}, max_range)

---------------------------------------------------------------------------
(* History of the last step *)

\* the identities of the records update_aircrafts skips at line 67
RejectedIds(data) ==
    {Identity(data[i]) : i \in {n \in 1..Len(data) : ~HasPosition(data[n])}}

NoRemoved == [k \in {} |-> 0]

\* what the last step did: the operation, the aircraft clean_data deleted
\* (with the reason and their last_behavior), whether clean_data raised, the
\* identities update_aircrafts skipped, <<data>> when the step was a call of
\* update_aircrafts(data), and whether the step before it was that same call
Op(name, removed, raised, rejected, ingested, repeat) ==
    [name |-> name, removed |-> removed, raised |-> raised,
     rejected |-> rejected, ingested |-> ingested, repeat |-> repeat]

NoOp == Op("", NoRemoved, FALSE, {}, <<>>, FALSE)

\* what the last step of the fetch thread or of the UI thread did: the
\* thread, the statement, whether it raised, whether it read or wrote
\* latest_data ("read", "write" or "") and whether the thread held the lock
\* then; and, kept from step to step, <<payload>> of the last fetch attempt
\* (<<>> when it failed) and the payload of the last attempt that succeeded
NoSrcOp ==
    [thread |-> "", name |-> "", raised |-> FALSE, access |-> "",
     locked |-> FALSE, fetched |-> <<>>, published |-> L(<<>>),
     unread |-> FALSE]

SrcOp(thread, name, raised, access, locked) ==
    [src_op EXCEPT !.thread = thread, !.name = name, !.raised = raised,
                   !.access = access, !.locked = locked]

NoCall == [fn |-> "", args |-> <<>>, raised |-> FALSE, result |-> 0]

---------------------------------------------------------------------------
(* The state machine *)

\* the canvas before any item is created
EmptyCanvas ==
    [order |-> <<>>, item |-> [k \in {} |-> 0], leader |-> [k \in {} |-> <<>>]]

Init ==
    /\ aircrafts = [k \in {} |-> Unset]
    /\ aircraft_canvas_items = {}
    /\ canvas_ids = {}
    /\ aircraft_trails = [k \in {} |-> <<>>]
    /\ prediction_lines = {}
    /\ label_leaders = {}
    /\ now = 0
    /\ last_op = NoOp
    /\ trail_length = TrailLength
    /\ trail_log = <<>>
    /\ running = TRUE
    /\ alive = FALSE
    /\ last_seen_time = 0
    /\ latest_data = L(<<>>)
    /\ lock = ""
    /\ fetch_pc = "loop"
    /\ fetch_data = None
    /\ app_running = TRUE
    /\ prev_update = 0
    /\ paused = FALSE
    /\ ui_pc = "idle"
    /\ scheduled = TRUE
    /\ src_op = NoSrcOp
    /\ call = NoCall
    /\ canvas = EmptyCanvas

\* what the registry operations leave alone
outside == <<trail_length, trail_log, srcvars, appvars, src_op, call, canvas>>

SetRegistry(r) ==
    /\ aircrafts' = r.aircrafts
    /\ aircraft_canvas_items' = r.aircraft_canvas_items
    /\ canvas_ids' = r.canvas_ids
    /\ aircraft_trails' = r.aircraft_trails
    /\ prediction_lines' = r.prediction_lines
    /\ label_leaders' = r.label_leaders

\* time passes
AdvanceTime(d) ==
    /\ now + d <= MaxNow
    /\ now' = now + d
    /\ last_op' = NoOp
    /\ UNCHANGED <<regvars, outside>>

\* Aircrafts.update_aircrafts(data, max_trails)
UpdateAircrafts(data) ==
    /\ aircrafts' = update_aircrafts(aircrafts, data, trail_length, now)
    /\ last_op' = Op("update_aircrafts", NoRemoved, FALSE, RejectedIds(data), <<data>>,
                     last_op.ingested = <<data>>)
    /\ UNCHANGED <<aircraft_canvas_items, canvas_ids, aircraft_trails,
                   prediction_lines, label_leaders, now, outside>>

\* Aircrafts.clean_data(canvas, max_range)
CleanData ==
    LET c == clean_data(Registry, MAX_RANGE_KM, now)
    IN /\ SetRegistry(c.reg)
       /\ last_op' = Op("clean_data", c.removed, c.raised, {}, <<>>, FALSE)
       /\ UNCHANGED <<now, outside>>

\* update_frame with clean_data called before update_aircrafts
update_frame_cleanfirst(r, data, max_trails, max_range, t) ==
    LET c == clean_data(r, max_range, t)
        ingested == [c.reg EXCEPT
                       !.aircrafts = update_aircrafts(@, data, max_trails, t)]
    IN [reg |-> IF c.raised THEN ingested
                ELSE process_aircrafts(ingested, DOMAIN ingested.aircrafts, max_range),
        raised |-> c.raised,
        removed |-> c.removed]

\* ADSBRadarApp.update_frame, lines 739-826, on the registry: ingest, evict,
\* then the per-aircraft loop, which an exception of clean_data cuts off
update_frame(r, data, max_trails, max_range, t) ==
    LET ingested == [r EXCEPT
                       !.aircrafts = update_aircrafts(@, data, max_trails, t)]
        c == clean_data(ingested, max_range, t)
    IN [reg |-> IF c.raised THEN c.reg
                ELSE process_aircrafts(c.reg, DOMAIN c.reg.aircrafts, max_range),
        raised |-> c.raised,
        removed |-> c.removed]

\* ADSBRadarApp.update_frame, lines 738-826: one UI tick that gets past its
\* early returns, data being what source_dump.snapshot() returns
UpdateFrame(data) ==
    /\ \A k \in DOMAIN aircraft_trails : Len(aircraft_trails[k]) < MaxPolyline
    /\ LET f == update_frame(Registry, data, trail_length, MAX_RANGE_KM, now)
       IN /\ SetRegistry(f.reg)
          /\ last_op' = Op("update_frame", f.removed, f.raised, RejectedIds(data), <<>>, FALSE)
    /\ UNCHANGED <<now, outside>>

Next ==
    \/ \E d \in ClockSteps : AdvanceTime(d)
    \/ \E data \in Snapshots : UpdateAircrafts(data)
    \/ CleanData
    \/ \E data \in Snapshots : UpdateFrame(data)

Spec == Init /\ [][Next]_vars

---------------------------------------------------------------------------
(* The registry driven through its whole interface: create_canvas_item is  *)
(* a method of Aircrafts that takes any hexid, update_frame only ever      *)
(* passes it the key of a tracked aircraft.                                *)

CanvasHexIds == {"X9"}

\* Aircrafts.create_canvas_item(canvas, hexid, x, y)
CreateCanvasItem(hexid) ==
    /\ SetRegistry(create_canvas_item(Registry, hexid))
    /\ last_op' = [NoOp EXCEPT !.name = "create_canvas_item"]
    /\ UNCHANGED <<now, outside>>

NextItems ==
    \/ Next
    \/ \E hexid \in CanvasHexIds : CreateCanvasItem(hexid)

SpecItems == Init /\ [][NextItems]_vars

---------------------------------------------------------------------------
(* The window with its controls: UI ticks, the trail-length Spinbox and    *)
(* the Clear Trails button.                                                *)

\* the values the user gives the trail-length Spinbox (from_=0, to=200)
TrailLengths == 0..(TrailLength + 1)

\* the snapshots the ticks of this window read
ControlSnapshots == {<<RecA1>>, <<RecA1b>>, <<RecSeen>>}

\* the trail-length Spinbox: it writes its textvariable and has no command
SetTrailLength(n) ==
    /\ n # trail_length
    /\ trail_length' = n
    /\ last_op' = [NoOp EXCEPT !.name = "set_trail_length"]
    /\ UNCHANGED <<regvars, now, trail_log, srcvars, appvars, src_op, call,
                   canvas>>

\* the Clear Trails button, ADSBRadarApp.clear_trails: its first statement
\* calls Aircrafts.clear_trails(self, max_trails) without max_trails, which
\* raises TypeError before the body runs; the statements after it are not
\* reached and Tk reports the exception of the callback
ClearTrailsButton ==
    /\ last_op' = [NoOp EXCEPT !.name = "clear_trails", !.raised = TRUE]
    /\ UNCHANGED <<regvars, now, outside>>

NextControls ==
    \/ \E data \in ControlSnapshots : UpdateFrame(data)
    \/ \E n \in TrailLengths : SetTrailLength(n)
    \/ ClearTrailsButton

SpecControls == Init /\ [][NextControls]_vars

---------------------------------------------------------------------------
(* The telemetry source and the two threads of the application: the fetch  *)
(* thread runs Dump1090Source._loop, the UI thread runs the callbacks of Tk *)
(* (schedule_update, the Pause checkbox, the window-close handler).  The   *)
(* fetch thread is a daemon: nothing but the end of the interpreter ends   *)
(* it while running is true.                                               *)

\* what requests.get(...) / r.json() raise
FetchFailures == {"timeout", "refused", "malformed"}

\* what r.json() returns: an array of records, an empty array, an object, null
Payloads == {L(<<RecA1>>), L(<<>>), Dict, None}

SrcUnchanged ==
    UNCHANGED <<regvars, now, last_op, trail_length, trail_log, call, canvas>>

\* _loop, line 56: while self.running
LoopTest ==
    /\ fetch_pc = "loop"
    /\ fetch_pc' = IF running THEN "request" ELSE "done"
    /\ src_op' = SrcOp("fetch", "while", FALSE, "", FALSE)
    /\ UNCHANGED <<running, alive, last_seen_time, latest_data, lock, fetch_data>>
    /\ UNCHANGED appvars /\ SrcUnchanged

\* _loop, lines 58-59 raise: the except clause, line 63
FetchFail(failure) ==
    /\ fetch_pc = "request"
    /\ alive' = FALSE
    /\ fetch_pc' = "sleep"
    /\ src_op' = [SrcOp("fetch", failure, FALSE, "", FALSE) EXCEPT !.fetched = <<>>]
    /\ UNCHANGED <<running, last_seen_time, latest_data, lock, fetch_data>>
    /\ UNCHANGED appvars /\ SrcUnchanged

\* _loop, lines 58-60: the request returns, r.json() is data
FetchOk(data) ==
    /\ fetch_pc = "request"
    /\ fetch_data' = data
    /\ alive' = Truthy(data)
    /\ fetch_pc' = "stamp"
    /\ src_op' = [SrcOp("fetch", "json", FALSE, "", FALSE) EXCEPT
                    !.fetched = <<data>>, !.published = data]
    /\ UNCHANGED <<running, last_seen_time, latest_data, lock>>
    /\ UNCHANGED appvars /\ SrcUnchanged

\* _process, line 69
Stamp ==
    /\ fetch_pc = "stamp"
    /\ last_seen_time' = now
    /\ fetch_pc' = "acquire"
    /\ src_op' = SrcOp("fetch", "stamp", FALSE, "", FALSE)
    /\ UNCHANGED <<running, alive, latest_data, lock, fetch_data>>
    /\ UNCHANGED appvars /\ SrcUnchanged

\* _process, line 70: with self.lock
Acquire ==
    /\ fetch_pc = "acquire"
    /\ lock = ""
    /\ lock' = "fetch"
    /\ fetch_pc' = "write"
    /\ src_op' = SrcOp("fetch", "acquire", FALSE, "", FALSE)
    /\ UNCHANGED <<running, alive, last_seen_time, latest_data, fetch_data>>
    /\ UNCHANGED appvars /\ SrcUnchanged

\* _process, line 71
Write ==
    /\ fetch_pc = "write"
    /\ latest_data' = fetch_data
    /\ fetch_pc' = "release"
    /\ src_op' = [SrcOp("fetch", "write", FALSE, "write", lock = "fetch") EXCEPT
                    !.unread = TRUE]
    /\ UNCHANGED <<running, alive, last_seen_time, lock, fetch_data>>
    /\ UNCHANGED appvars /\ SrcUnchanged

\* _process, the end of the with block
Release ==
    /\ fetch_pc = "release"
    /\ lock' = ""
    /\ fetch_pc' = "sleep"
    /\ src_op' = SrcOp("fetch", "release", FALSE, "", FALSE)
    /\ UNCHANGED <<running, alive, last_seen_time, latest_data, fetch_data>>
    /\ UNCHANGED appvars /\ SrcUnchanged

\* _loop, line 65
Sleep ==
    /\ fetch_pc = "sleep"
    /\ fetch_pc' = "loop"
    /\ fetch_data' = None
    /\ src_op' = SrcOp("fetch", "sleep", FALSE, "", FALSE)
    /\ UNCHANGED <<running, alive, last_seen_time, latest_data, lock>>
    /\ UNCHANGED appvars /\ SrcUnchanged

\* An exception leaves update_frame and schedule_update: line 434 is not
\* reached, no callback is pending any more
UiRaise(name, access, locked) ==
    /\ ui_pc' = "idle"
    /\ scheduled' = FALSE
    /\ src_op' = SrcOp("ui", name, TRUE, access, locked)

\* schedule_update with update_frame up to line 736: Tk runs the pending
\* callback; the early returns of update_frame lead to root.after
ScheduleUpdate ==
    /\ scheduled
    /\ ui_pc = "idle"
    /\ src_op' = SrcOp("ui",
                       IF app_running /\ ~paused /\ last_seen_time = prev_update
                       THEN "unchanged" ELSE "schedule_update",
                       FALSE, "", FALSE)
    /\ IF ~app_running
       THEN scheduled' = FALSE /\ UNCHANGED <<prev_update, ui_pc>>
       ELSE IF paused \/ last_seen_time = prev_update
       THEN UNCHANGED <<scheduled, prev_update, ui_pc>>
       ELSE /\ prev_update' = last_seen_time
            /\ ui_pc' = "snapshot"
            /\ UNCHANGED scheduled
    /\ UNCHANGED <<app_running, paused>>
    /\ UNCHANGED srcvars /\ SrcUnchanged

\* update_frame, lines 739-826: snapshot() under the lock, then the
\* registry.  None has no copy(); iterating a dict yields its keys, which
\* are strings and have no get(): both raise AttributeError.
TickSnapshot ==
    /\ ui_pc = "snapshot"
    /\ lock = ""
    /\ \A k \in DOMAIN aircraft_trails : Len(aircraft_trails[k]) < MaxPolyline
    /\ IF latest_data.t = "list"
       THEN LET f == update_frame(Registry, latest_data.v, trail_length, MAX_RANGE_KM, now)
            IN /\ SetRegistry(f.reg)
               /\ last_op' = Op("update_frame", f.removed, f.raised,
                                RejectedIds(latest_data.v), <<>>, FALSE)
               /\ ui_pc' = "count"
               /\ src_op' = [SrcOp("ui", "snapshot", FALSE, "read", TRUE) EXCEPT
                                !.unread = FALSE]
               /\ UNCHANGED scheduled
       ELSE /\ UiRaise("snapshot", "read", TRUE)
            /\ UNCHANGED <<regvars, last_op>>
    /\ UNCHANGED <<app_running, prev_update, paused>>
    /\ UNCHANGED <<srcvars, now, trail_length, trail_log, call, canvas>>

\* update_frame, line 829, aircrafts_count line 49: if self.latest_data
TickCount ==
    /\ ui_pc = "count"
    /\ ui_pc' = IF Truthy(latest_data) THEN "len" ELSE "idle"
    /\ src_op' = SrcOp("ui", "count", FALSE, "read", lock = "ui")
    /\ UNCHANGED <<app_running, prev_update, paused, scheduled>>
    /\ UNCHANGED srcvars /\ SrcUnchanged

\* aircrafts_count line 50: len(self.latest_data); len(None) raises TypeError
TickLen ==
    /\ ui_pc = "len"
    /\ IF latest_data = None
       THEN /\ UiRaise("len", "read", lock = "ui")
       ELSE /\ ui_pc' = "idle"
            /\ src_op' = SrcOp("ui", "len", FALSE, "read", lock = "ui")
            /\ UNCHANGED scheduled
    /\ UNCHANGED <<app_running, prev_update, paused>>
    /\ UNCHANGED srcvars /\ SrcUnchanged

\* the Pause updates Checkbutton
TogglePaused ==
    /\ ui_pc = "idle"
    /\ app_running
    /\ paused' = ~paused
    /\ src_op' = SrcOp("ui", "pause", FALSE, "", FALSE)
    /\ UNCHANGED <<app_running, prev_update, ui_pc, scheduled>>
    /\ UNCHANGED srcvars /\ SrcUnchanged

\* on_close of main.py: ADSBRadarApp.stop(), then root.destroy(), which
\* drops the pending callbacks
OnClose ==
    /\ ui_pc = "idle"
    /\ app_running
    /\ app_running' = FALSE
    /\ scheduled' = FALSE
    /\ src_op' = SrcOp("ui", "stop", FALSE, "", FALSE)
    /\ UNCHANGED <<prev_update, paused, ui_pc>>
    /\ UNCHANGED srcvars /\ SrcUnchanged

FetchThread ==
    \/ LoopTest
    \/ \E failure \in FetchFailures : FetchFail(failure)
    \/ \E data \in Payloads : FetchOk(data)
    \/ Stamp
    \/ Acquire
    \/ Write
    \/ Release
    \/ Sleep

UiThread ==
    \/ ScheduleUpdate
    \/ TickSnapshot
    \/ TickCount
    \/ TickLen
    \/ TogglePaused
    \/ OnClose

NextSource ==
    \/ FetchThread
    \/ UiThread
    \/ \E d \in ClockSteps : AdvanceTime(d)

SpecSource == Init /\ [][NextSource]_vars

\* the scheduler gives the fetch thread its turn as long as it can run
SpecSourceFair == SpecSource /\ WF_vars(FetchThread)

\* the clock going on for one more staleness period, a period and a second
\* at a time
LateClock(d) ==
    /\ now <= MaxNow
    /\ now' = now + d
    /\ last_op' = NoOp
    /\ UNCHANGED <<regvars, outside>>

\* a UI tick: Tk runs the pending callback and update_frame goes on
UiTick ==
    \/ ScheduleUpdate
    \/ TickSnapshot
    \/ TickCount
    \/ TickLen

\* the fetch thread with a source that reports A1 when it answers
FetchLate ==
    \/ LoopTest
    \/ FetchFail("timeout")
    \/ FetchOk(L(<<RecA1>>))
    \/ Stamp
    \/ Acquire
    \/ Write
    \/ Release
    \/ Sleep

\* the window left alone: the user neither pauses nor closes it
NextSourceLate ==
    \/ FetchLate
    \/ UiTick
    \/ LateClock(STALE_SECONDS + 1)

\* update_frame at line 739 gets the lock once it is free and goes on to
\* the count, or ends in the exception
SnapshotTurn ==
    /\ ui_pc = "snapshot"
    /\ lock = ""
    /\ ui_pc' \in {"count", "idle"}

\* both threads get their turn: the fetch thread runs, Tk fires the tick it
\* has pending, and a tick that has started goes on to its end
SpecSourceLive ==
    /\ Init
    /\ [][NextSourceLate]_vars
    /\ WF_vars(FetchLate)
    /\ WF_vars(ScheduleUpdate)
    /\ WF_ui_pc(SnapshotTurn)
    /\ WF_vars(TickCount)
    /\ WF_vars(TickLen)

---------------------------------------------------------------------------
(* The scale and zoom functions, called with any range and canvas size.    *)
(* A call is a record: the function, its arguments, whether it raised and  *)
(* the value it returned (floats rounded towards zero).                    *)

Max(a, b) == IF a > b THEN a ELSE b

\* the smaller of two canvas dimensions, min(canvas_width, canvas_height)
MinDim(a, b) == IF a < b THEN a ELSE b

Ranges == {0, 10, 200, 500}
Widths == {0, 1, 800}
Heights == {0, 800}
Distances == {0, 1, 111, 333}

\* 156543.03392 * cos(radians(lat)) at the observer's latitude, in metres
\* per pixel
MPP_AT_ZOOM_0 == 103318

Returned(fn, args, value) ==
    [fn |-> fn, args |-> args, raised |-> FALSE, result |-> value]

Raised(fn, args) ==
    [fn |-> fn, args |-> args, raised |-> TRUE, result |-> 0]

\* the largest z with den * 2^z <= num, for num >= den > 0
RECURSIVE Log2Floor(_, _)
Log2Floor(num, den) ==
    IF num < 2 * den THEN 0 ELSE 1 + Log2Floor(num, 2 * den)

\* int(math.log2(num / den)) for num, den > 0: int() rounds towards zero,
\* so that a ratio below 1 gives minus the whole part of log2(den / num)
IntLog2(num, den) ==
    IF num >= den THEN Log2Floor(num, den) ELSE 0 - Log2Floor(den, num)

\* Utils.km_to_pixels
utils_km_to_pixels(canvas_width, canvas_height, max_range, km) ==
    LET args == [canvas_width |-> canvas_width, canvas_height |-> canvas_height,
                 max_range |-> max_range, km |-> km]
        radius_px == MinDim(canvas_width, canvas_height) \div 2 - MARGIN
    IN IF max_range > 0
       THEN Returned("Utils.km_to_pixels", args, (km * radius_px) \div max_range)
       ELSE Returned("Utils.km_to_pixels", args, km * radius_px)

\* Utils.compute_zoom, at the observer's latitude: target_mpp is 0 when
\* max_range is 0 and the division by it raises ZeroDivisionError
compute_zoom(max_range, width) ==
    LET args == [max_range |-> max_range, width |-> width]
        width_px == Max(width, 1)
    IN IF max_range * 2 * 1000 = 0
       THEN Raised("compute_zoom", args)
       ELSE Returned("compute_zoom", args,
                     IntLog2(MPP_AT_ZOOM_0 * width_px, max_range * 2 * 1000))

\* OSMSource.compute_osm_zoom, at the observer's latitude: the same
\* computation, clamped to 0..18
compute_osm_zoom(max_range, width) ==
    LET z == compute_zoom(max_range, width)
    IN IF z.raised THEN Raised("compute_osm_zoom", z.args)
       ELSE Returned("compute_osm_zoom", z.args, Max(0, MinDim(z.result, 18)))

ScaleUnchanged ==
    UNCHANGED <<regvars, now, last_op, trail_length, trail_log, srcvars,
                appvars, src_op, canvas>>

\* ADSBRadarApp.km_to_pixels of radar.py, on the canvas of CANVAS_SIZE
CallKmToPixels(max_range, km) ==
    /\ call' = Returned("km_to_pixels", [max_range |-> max_range, km |-> km],
                        km_to_pixels(km, max_range))
    /\ ScaleUnchanged

CallUtilsKmToPixels(w, h, max_range, km) ==
    /\ call' = utils_km_to_pixels(w, h, max_range, km)
    /\ ScaleUnchanged

CallComputeZoom(max_range, width) ==
    /\ call' = compute_zoom(max_range, width)
    /\ ScaleUnchanged

CallComputeOsmZoom(max_range, width) ==
    /\ call' = compute_osm_zoom(max_range, width)
    /\ ScaleUnchanged

NextScale ==
    \/ \E r \in Ranges, km \in Distances : CallKmToPixels(r, km)
    \/ \E w \in Widths, h \in Heights, r \in Ranges, km \in Distances :
            CallUtilsKmToPixels(w, h, r, km)
    \/ \E r \in Ranges, w \in Widths : CallComputeZoom(r, w)
    \/ \E r \in Ranges, w \in Widths : CallComputeOsmZoom(r, w)

SpecScale == Init /\ [][NextScale]_vars

---------------------------------------------------------------------------
(* The great-circle distance, called on any two points of a grid of        *)
(* latitudes and longitudes.                                               *)

Latitudes == {0, 30, 60}
Longitudes == {-60, 0, 60, 180}

\* haversine_km of radar.py
CallHaversine(lat1, lon1, lat2, lon2) ==
    /\ call' = Returned("haversine_km",
                        [lat1 |-> lat1, lon1 |-> lon1, lat2 |-> lat2, lon2 |-> lon2],
                        haversine_km(lat1, lon1, lat2, lon2))
    /\ ScaleUnchanged

\* Utils.haversine_km, the same code in utils.py
CallUtilsHaversine(lat1, lon1, lat2, lon2) ==
    /\ call' = Returned("Utils.haversine_km",
                        [lat1 |-> lat1, lon1 |-> lon1, lat2 |-> lat2, lon2 |-> lon2],
                        haversine_km(lat1, lon1, lat2, lon2))
    /\ ScaleUnchanged

NextGeo ==
    \/ \E lat1 \in Latitudes, lon1 \in Longitudes,
          lat2 \in Latitudes, lon2 \in Longitudes :
            CallHaversine(lat1, lon1, lat2, lon2)
    \/ \E lat1 \in Latitudes, lon1 \in Longitudes,
          lat2 \in Latitudes, lon2 \in Longitudes :
            CallUtilsHaversine(lat1, lon1, lat2, lon2)

SpecGeo == Init /\ [][NextGeo]_vars

---------------------------------------------------------------------------
(* aircraft.py: the layout of the labels.  The canvas holds, per aircraft, *)
(* the centre (cx, cy) of the outer oval and the text item of the label:   *)
(* its position (lx, ly), anchored "nw", the size (w, h) of its text and   *)
(* whether it has any text to show (canvas.bbox is None for an empty       *)
(* text).  order is the insertion order of aircraft_canvas_items, leader   *)
(* the coordinates of the leader lines.  Pixels are integers, a move is    *)
(* rounded towards zero.                                                   *)

\* canvas.bbox returning None
NoBox == <<>>

\* canvas.bbox(lbl) of a text item
canvas_bbox(it) ==
    IF it.shown THEN <<it.lx, it.ly, it.lx + it.w, it.ly + it.h>> ELSE NoBox

\* canvas.coords(lbl, x, y)
canvas_coords(cv, hexid, x, y) ==
    [cv EXCEPT !.item[hexid].lx = x, !.item[hexid].ly = y]

\* canvas.move(lbl, dx, dy)
canvas_move(cv, hexid, dx, dy) ==
    [cv EXCEPT !.item[hexid].lx = @ + dx, !.item[hexid].ly = @ + dy]

\* closest_point_on_bbox giving the centre of the box
closest_point_on_bbox_centre(cx, cy, bbox) ==
    <<(bbox[1] + bbox[3]) \div 2, (bbox[2] + bbox[4]) \div 2>>

\* Aircrafts.closest_point_on_bbox
closest_point_on_bbox(cx, cy, bbox) ==
    <<MinDim(Max(cx, bbox[1]), bbox[3]), MinDim(Max(cy, bbox[2]), bbox[4])>>

\* Aircrafts.bbox_overlap: boxes that touch overlap
bbox_overlap(a, b) ==
    ~(a[3] < b[1] \/ b[3] < a[1] \/ a[4] < b[2] \/ b[4] < a[2])

ANGLE_STEPS == 16     \* place_label_spiral: angle_steps=16
RADIAL_STEPS == 6     \* place_label_spiral: radial_steps=6
MAX_RADIUS == 90      \* resolve_labels_and_draw_leaders: max_radius=90

\* 10000 * sin of 0, 22.5, 45, 67.5 and 90 degrees
SIN_16 == <<0, 3827, 7071, 9239, 10000>>

\* 10000 * math.sin(2 * pi * a / 16)
Sin16(a) ==
    LET m == a % 16
        h == IF m >= 8 THEN m - 8 ELSE m
        q == IF h > 4 THEN 8 - h ELSE h
    IN IF m >= 8 THEN 0 - SIN_16[q + 1] ELSE SIN_16[q + 1]

\* 10000 * math.cos(2 * pi * a / 16)
Cos16(a) == Sin16(a + 4)

\* int(round(v / 10000))
RoundE4(v) ==
    IF v >= 0 THEN (v + 5000) \div 10000 ELSE 0 - ((5000 - v) \div 10000)

\* the duplicates of a list removed, the order kept
Unique(seq) ==
    LET first == SelectSeq([i \in 1..Len(seq) |-> i],
                           LAMBDA i : \A j \in 1..(i - 1) : seq[j] # seq[i])
    IN [k \in 1..Len(first) |-> seq[first[k]]]

\* Aircrafts.generate_spiral_offsets with angle_steps = 16: the default
\* offset, then ring after ring, 16 angles a ring
generate_spiral_offsets(max_radius, radial_steps) ==
    LET ring(i) ==
            LET r_step == (i - 1) \div ANGLE_STEPS + 1
                a == (i - 1) % ANGLE_STEPS
            IN <<RoundE4((max_radius * r_step * Cos16(a)) \div radial_steps),
                 RoundE4((max_radius * r_step * Sin16(a)) \div radial_steps)>>
        offsets == << <<10, 10>> >>
                   \o [i \in 1..(radial_steps * ANGLE_STEPS) |-> ring(i)]
    IN Unique(offsets)

\* the offsets place_label_spiral tries, in order
SpiralOffsets == generate_spiral_offsets(MAX_RADIUS, RADIAL_STEPS)

\* the value of Then at e, with e computed once
Bind(e, Then(_)) == CHOOSE r \in {Then(v) : v \in {e}} : TRUE

\* place_label_spiral, the loop of lines 209-222 over the candidates
\* offsets[first], offsets[first + 1], ...: the loop returns at the first
\* candidate with a box that collides with none of existing_bboxes and
\* falls through after the last; the canvas with the label where the loop
\* left it, the box returned and the number of the candidate
spiral_from(cv, hexid, x, y, existing_bboxes, first) ==
    LET at(i) == canvas_coords(cv, hexid, x + SpiralOffsets[i][1],
                                          y + SpiralOffsets[i][2])
        returns(i) ==
            LET bbox == canvas_bbox(at(i).item[hexid])
            IN /\ bbox # NoBox
               /\ \A k \in 1..Len(existing_bboxes) :
                        ~bbox_overlap(bbox, existing_bboxes[k])
        last == Len(SpiralOffsets)
        tried == IF \E i \in first..last : returns(i)
                 THEN CHOOSE i \in first..last :
                        returns(i) /\ \A j \in first..(i - 1) : ~returns(j)
                 ELSE last
    IN [canvas |-> at(tried), bbox |-> canvas_bbox(at(tried).item[hexid]),
        tried |-> tried]

\* place_label_spiral that skips the default offset
place_label_spiral_ring(cv, hexid, x, y, existing_bboxes) ==
    spiral_from(cv, hexid, x, y, existing_bboxes, 2)

\* Aircrafts.place_label_spiral(canvas, lbl_id, x, y, existing_bboxes)
place_label_spiral(cv, hexid, x, y, existing_bboxes) ==
    spiral_from(cv, hexid, x, y, existing_bboxes, 1)

\* a / b rounded towards zero, b > 0
TruncDiv(a, b) == IF a >= 0 THEN a \div b ELSE 0 - ((0 - a) \div b)

\* the whole part of the square root of n, sought between lo and hi
RECURSIVE IsqrtIn(_, _, _)
IsqrtIn(n, lo, hi) ==
    IF lo >= hi THEN lo
    ELSE LET mid == (lo + hi + 1) \div 2
         IN IF mid * mid <= n THEN IsqrtIn(n, mid, hi)
            ELSE IsqrtIn(n, lo, mid - 1)

Isqrt(n) == IsqrtIn(n, 0, 30000)

\* max(-move_limit, min(move_limit, move))
Clamp(move, move_limit) == Max(0 - move_limit, MinDim(move_limit, move))

\* 1000 / (priority + 1e-6) with priority = 1.0 / (0.001 + distance_km)
Weight(km) == 1 + 1000 * km

\* the labels relax_label_positions tracks: those of label_info with a box,
\* in the order of label_info
RECURSIVE relax_keys(_, _, _)
relax_keys(cv, label_info, placed_bboxes_map) ==
    IF label_info = <<>> THEN <<>>
    ELSE LET hexid == Head(label_info).hex
             rest == relax_keys(cv, Tail(label_info), placed_bboxes_map)
         IN IF hexid \in DOMAIN placed_bboxes_map
               \/ canvas_bbox(cv.item[hexid]) # NoBox
            THEN <<Head(label_info)>> \o rest
            ELSE rest

\* relax_label_positions, lines 254-313 for one pair a, b of tracked labels:
\* st holds the canvas, state[k]['bbox'], moved_any and, as history, what
\* each label was moved by in this pass
relax_pair(st, a, b, move_limit) ==
    LET A == st.box[a.hex]
        B == st.box[b.hex]
        overlap_x == MinDim(A[3], B[3]) - Max(A[1], B[1])
        overlap_y == MinDim(A[4], B[4]) - Max(A[2], B[2])
        push_x == overlap_x + 2
        push_y == overlap_y + 2
        dx2 == (B[1] + B[3]) - (A[1] + A[3])
        dy2 == (B[2] + B[4]) - (A[2] + A[4])
        same == dx2 = 0 /\ dy2 = 0
        dx == IF same THEN 100 ELSE 10 * dx2
        dy == IF same THEN 50 ELSE 10 * dy2
        dist == IF same THEN 112 ELSE Isqrt(100 * (dx2 * dx2 + dy2 * dy2))
        wa == (100 * Weight(a.km)) \div (Weight(a.km) + Weight(b.km))
        wb == 100 - wa
        move_ax == Clamp(TruncDiv(0 - dx * push_x * wa, dist * 100), move_limit)
        move_ay == Clamp(TruncDiv(0 - dy * push_y * wa, dist * 100), move_limit)
        move_bx == Clamp(TruncDiv(dx * push_x * wb, dist * 100), move_limit)
        move_by == Clamp(TruncDiv(dy * push_y * wb, dist * 100), move_limit)
        moved == canvas_move(canvas_move(st.canvas, a.hex, move_ax, move_ay),
                             b.hex, move_bx, move_by)
        a_bbox == canvas_bbox(moved.item[a.hex])
        b_bbox == canvas_bbox(moved.item[b.hex])
    IN IF ~bbox_overlap(A, B) \/ overlap_x <= 0 \/ overlap_y <= 0 THEN st
       ELSE [canvas |-> moved,
             box |-> [st.box EXCEPT
                        ![a.hex] = IF a_bbox # NoBox THEN a_bbox ELSE @,
                        ![b.hex] = IF b_bbox # NoBox THEN b_bbox ELSE @],
             moved_any |-> TRUE,
             shift |-> [st.shift EXCEPT
                          ![a.hex] = <<@[1] + move_ax, @[2] + move_ay>>,
                          ![b.hex] = <<@[1] + move_bx, @[2] + move_by>>]]

\* the loops of lines 252-253 from the pair (i, j) on
RECURSIVE relax_pairs(_, _, _, _, _)
relax_pairs(st, keys, i, j, move_limit) ==
    IF i >= Len(keys) THEN st
    ELSE IF j > Len(keys) THEN relax_pairs(st, keys, i + 1, i + 2, move_limit)
    ELSE Bind(relax_pair(st, keys[i], keys[j], move_limit),
              LAMBDA s : relax_pairs(s, keys, i, j + 1, move_limit))

\* the passes of line 249 that are left: passes is the history of the
\* passes made, each with its moved_any and what it moved each label by
RECURSIVE relax_passes(_, _, _, _, _, _)
relax_passes(cv, box, keys, left, move_limit, passes) ==
    LET start == [canvas |-> cv, box |-> box, moved_any |-> FALSE,
                  shift |-> [k \in DOMAIN box |-> <<0, 0>>]]
        after(st) ==
            LET made == Append(passes, [moved_any |-> st.moved_any,
                                        shift |-> st.shift])
            IN IF ~st.moved_any
               THEN [canvas |-> st.canvas, map |-> st.box, passes |-> made]
               ELSE relax_passes(st.canvas, st.box, keys, left - 1,
                                 move_limit, made)
    IN IF left = 0 THEN [canvas |-> cv, map |-> box, passes |-> passes]
       ELSE Bind(relax_pairs(start, keys, 1, 2, move_limit), after)

\* relax_label_positions going on to the next pass whether or not the last
\* one moved a label
relax_label_positions_nobreak(cv, label_info, placed_bboxes_map, iterations, move_limit) ==
    LET keys == relax_keys(cv, label_info, placed_bboxes_map)
        box == [k \in {keys[i].hex : i \in 1..Len(keys)} |->
                    IF k \in DOMAIN placed_bboxes_map THEN placed_bboxes_map[k]
                    ELSE canvas_bbox(cv.item[k])]
        pass(c, b) ==
            relax_pairs([canvas |-> c, box |-> b, moved_any |-> FALSE,
                         shift |-> [k \in DOMAIN b |-> <<0, 0>>]],
                        keys, 1, 2, move_limit)
    IN Bind(pass(cv, box), LAMBDA p1 :
        Bind(pass(p1.canvas, p1.box), LAMBDA p2 :
            [canvas |-> p2.canvas, map |-> p2.box,
             passes |-> <<[moved_any |-> p1.moved_any, shift |-> p1.shift],
                          [moved_any |-> p2.moved_any, shift |-> p2.shift]>>]))

\* Aircrafts.relax_label_positions(canvas, label_info, placed_bboxes_map,
\* iterations, move_limit)
relax_label_positions(cv, label_info, placed_bboxes_map, iterations, move_limit) ==
    LET keys == relax_keys(cv, label_info, placed_bboxes_map)
        box == [k \in {keys[i].hex : i \in 1..Len(keys)} |->
                    IF k \in DOMAIN placed_bboxes_map THEN placed_bboxes_map[k]
                    ELSE canvas_bbox(cv.item[k])]
    IN Bind(box, LAMBDA b :
            relax_passes(cv, b, keys, iterations, move_limit, <<>>))

LEADER_PX == 15       \* resolve_labels_and_draw_leaders: if px_dist > 15
RELAX_ITERATIONS == 8 \* resolve_labels_and_draw_leaders: iterations=8
RELAX_MOVE_LIMIT == 10 \* resolve_labels_and_draw_leaders: move_limit=10

\* label_data, lines 326-337: one entry per canvas item, km the
\* distance_km of its aircraft (priority = 1.0 / (0.001 + km))
label_data_of(acs, cv) ==
    [i \in 1..Len(cv.order) |->
        LET hexid == cv.order[i]
        IN [hex |-> hexid, cx |-> cv.item[hexid].cx, cy |-> cv.item[hexid].cy,
            km |-> acs[hexid].distance_km]]

\* list.sort(key=lambda i: -i['priority']): stable, the highest priority
\* first, which is the smallest km first
RECURSIVE sort_by_priority(_)
sort_by_priority(seq) ==
    IF seq = <<>> THEN <<>>
    ELSE LET sorted == sort_by_priority(SubSeq(seq, 1, Len(seq) - 1))
             e == seq[Len(seq)]
             n == Cardinality({i \in 1..Len(sorted) : sorted[i].km <= e.km})
         IN SubSeq(sorted, 1, n) \o <<e>> \o SubSeq(sorted, n + 1, Len(sorted))

\* lines 342-348 from label i on: place the labels one after the other
RECURSIVE spiral_phase(_, _, _)
spiral_phase(sp, label_data, i) ==
    LET info == label_data[i]
        placed(p) ==
            IF p.bbox # NoBox
            THEN [canvas |-> p.canvas,
                  placed_bboxes |-> Append(sp.placed_bboxes, p.bbox),
                  placed_bboxes_map |->
                        (info.hex :> p.bbox) @@ sp.placed_bboxes_map,
                  tried |-> (info.hex :> p.tried) @@ sp.tried]
            ELSE [sp EXCEPT !.canvas = p.canvas,
                            !.tried = (info.hex :> p.tried) @@ @]
    IN IF i > Len(label_data) THEN sp
       ELSE Bind(Bind(place_label_spiral(sp.canvas, info.hex, info.cx, info.cy,
                                         sp.placed_bboxes),
                      placed),
                 LAMBDA next : spiral_phase(next, label_data, i + 1))

\* lines 352-360
need_relax(placed_bboxes_map) ==
    \E a, b \in DOMAIN placed_bboxes_map :
        a # b /\ bbox_overlap(placed_bboxes_map[a], placed_bboxes_map[b])

\* lines 370-402 from label i on: ld holds the canvas, the keys of
\* label_leaders and, as history, the leaders created, updated and deleted;
\* line 374 reads self.canvas, which Aircrafts does not have, when the map
\* holds no box of the label
RECURSIVE draw_leaders(_, _, _, _)
draw_leaders(ld, label_data, placed_bboxes_map, i) ==
    LET info == label_data[i]
        hexid == info.hex
        bbox == placed_bboxes_map[hexid]
        edge == closest_point_on_bbox(info.cx, info.cy, bbox)
        ex == edge[1] - info.cx
        ey == edge[2] - info.cy
        line == <<info.cx, info.cy, edge[1], edge[2]>>
        drawn ==
            IF ex * ex + ey * ey > LEADER_PX * LEADER_PX
            THEN IF hexid \notin ld.label_leaders
                 THEN [ld EXCEPT !.label_leaders = @ \cup {hexid},
                                 !.canvas.leader = (hexid :> line) @@ @,
                                 !.created = @ \cup {hexid}]
                 ELSE [ld EXCEPT !.canvas.leader = (hexid :> line) @@ @,
                                 !.updated = @ \cup {hexid}]
            ELSE IF hexid \in ld.label_leaders
            THEN [ld EXCEPT !.label_leaders = @ \ {hexid},
                            !.canvas.leader =
                                [k \in DOMAIN @ \ {hexid} |-> @[k]],
                            !.deleted = @ \cup {hexid}]
            ELSE ld
    IN IF i > Len(label_data) THEN ld
       ELSE IF hexid \notin DOMAIN placed_bboxes_map
       THEN [ld EXCEPT !.raised = TRUE]
       ELSE Bind(drawn,
                 LAMBDA next : draw_leaders(next, label_data,
                                            placed_bboxes_map, i + 1))

\* Aircrafts.resolve_labels_and_draw_leaders(canvas): the canvas and the
\* keys of label_leaders it leaves, whether it raised, and as history the
\* sorted label_data, the candidate each label ended at, the map of the
\* boxes after the spiral phase and after the relaxation, the passes of the
\* relaxation and the leaders created, updated and deleted
resolve_labels_and_draw_leaders(acs, leaders, cv) ==
    LET relaxed(label_data, sp) ==
            IF need_relax(sp.placed_bboxes_map)
            THEN relax_label_positions(sp.canvas, label_data,
                                       sp.placed_bboxes_map,
                                       RELAX_ITERATIONS, RELAX_MOVE_LIMIT)
            ELSE [canvas |-> sp.canvas, map |-> sp.placed_bboxes_map,
                  passes |-> <<>>]
        leaders_of(label_data, sp, rx) ==
            draw_leaders([canvas |-> rx.canvas, label_leaders |-> leaders,
                          raised |-> FALSE, created |-> {}, updated |-> {},
                          deleted |-> {}],
                         label_data, rx.map @@ sp.placed_bboxes_map, 1)
        returned(label_data, sp, rx, ld) ==
            [canvas |-> ld.canvas, label_leaders |-> ld.label_leaders,
             raised |-> ld.raised,
             result |-> [label_data |-> label_data, tried |-> sp.tried,
                         spiral |-> sp.canvas,
                         need_relax |-> need_relax(sp.placed_bboxes_map),
                         passes |-> rx.passes,
                         map |-> rx.map @@ sp.placed_bboxes_map,
                         created |-> ld.created, updated |-> ld.updated,
                         deleted |-> ld.deleted]]
    IN Bind(sort_by_priority(label_data_of(acs, cv)), LAMBDA label_data :
        Bind(spiral_phase([canvas |-> cv, placed_bboxes |-> <<>>,
                           placed_bboxes_map |-> [k \in {} |-> NoBox],
                           tried |-> [k \in {} |-> 0]],
                          label_data, 1), LAMBDA sp :
        Bind(relaxed(label_data, sp), LAMBDA rx :
        Bind(leaders_of(label_data, sp, rx), LAMBDA ld :
            returned(label_data, sp, rx, ld)))))

---------------------------------------------------------------------------
(* Three aircraft on the canvas, drawn at any of a few places by the UI    *)
(* tick, and a layout function called on the canvas as the tick left it.   *)

LabelHexIds == <<"A1", "B2", "C3">>

\* the size of the box of a label's three lines of text
LabelSize == [w |-> 100, h |-> 50]

\* where each aircraft is drawn: canvas x and y with the distance_km there
Places ==
    ("A1" :> {[x |-> 100, y |-> 100, km |-> 217], [x |-> 400, y |-> 400, km |-> 0],
              [x |-> 490, y |-> 360, km |-> 50]})
    @@ ("B2" :> {[x |-> 700, y |-> 700, km |-> 217], [x |-> 400, y |-> 400, km |-> 0],
                 [x |-> 490, y |-> 440, km |-> 50]})
    @@ ("C3" :> {[x |-> 400, y |-> 400, km |-> 0], [x |-> 500, y |-> 410, km |-> 51]})

\* the items create_canvas_item makes at (x, y): the label at (x + 10,
\* y + 10) with no text, which update_frame then sets
ItemAt(hexid, x, y, shown) ==
    [hex |-> hexid, cx |-> x, cy |-> y, lx |-> x + 10, ly |-> y + 10,
     w |-> LabelSize.w, h |-> LabelSize.h, shown |-> shown]

InitLabels ==
    /\ aircrafts =
        ("A1" :> update_compute_data(AircraftInit("A1", RecA1, TrailLength, 0), 0, 217))
        @@ ("B2" :> update_compute_data(AircraftInit("B2", RecA1, TrailLength, 0), 0, 217))
        @@ ("C3" :> update_compute_data(AircraftInit("C3", RecA1, TrailLength, 0), 0, 0))
    /\ aircraft_canvas_items = {"A1", "B2", "C3"}
    /\ canvas_ids = {"A1", "B2", "C3"}
    /\ aircraft_trails = [k \in {} |-> <<>>]
    /\ prediction_lines = {}
    /\ label_leaders = {}
    /\ now = 0
    /\ last_op = NoOp
    /\ trail_length = TrailLength
    /\ trail_log = <<>>
    /\ running = TRUE
    /\ alive = FALSE
    /\ last_seen_time = 0
    /\ latest_data = L(<<>>)
    /\ lock = ""
    /\ fetch_pc = "loop"
    /\ fetch_data = None
    /\ app_running = TRUE
    /\ prev_update = 0
    /\ paused = FALSE
    /\ ui_pc = "idle"
    /\ scheduled = TRUE
    /\ src_op = NoSrcOp
    /\ call = NoCall
    /\ canvas = [order |-> LabelHexIds,
                 item |-> ("A1" :> ItemAt("A1", 100, 100, TRUE))
                          @@ ("B2" :> ItemAt("B2", 700, 700, TRUE))
                          @@ ("C3" :> ItemAt("C3", 400, 400, TRUE)),
                 leader |-> [k \in {} |-> <<>>]]

LabelsUnchanged ==
    UNCHANGED <<aircraft_canvas_items, canvas_ids, aircraft_trails,
                prediction_lines, now, last_op, trail_length, trail_log,
                srcvars, appvars, src_op>>

\* update_frame, lines 773-800, for every aircraft: the ovals are moved to
\* the aircraft's place, and the label is given its text and moved to the
\* default offset when show_labels is on, emptied where it is when it is off
DrawItems(place, show_labels) ==
    /\ aircrafts' = [k \in DOMAIN aircrafts |->
                        update_compute_data(aircrafts[k], 0, place[k].km)]
    /\ canvas' = [canvas EXCEPT
                    !.item = [k \in DOMAIN @ |->
                        IF show_labels
                        THEN ItemAt(k, place[k].x, place[k].y, TRUE)
                        ELSE [@[k] EXCEPT !.cx = place[k].x, !.cy = place[k].y,
                                          !.shown = FALSE]]]
    /\ call' = NoCall
    /\ UNCHANGED label_leaders
    /\ LabelsUnchanged

\* Aircrafts.resolve_labels_and_draw_leaders(canvas)
ResolveLabels ==
    /\ call = NoCall
    /\ \E r \in {resolve_labels_and_draw_leaders(aircrafts, label_leaders, canvas)} :
       /\ canvas' = r.canvas
       /\ label_leaders' = r.label_leaders
       /\ call' = [fn |-> "resolve_labels_and_draw_leaders",
                   args |-> [canvas |-> canvas, label_leaders |-> label_leaders],
                   raised |-> r.raised, result |-> r.result]
       /\ UNCHANGED aircrafts
       /\ LabelsUnchanged

\* the defaults of relax_label_positions
DEFAULT_ITERATIONS == 6
DEFAULT_MOVE_LIMIT == 12

\* Aircrafts.relax_label_positions(canvas, label_info, {}) with its default
\* iterations and move_limit, on the labels where they are
RelaxLabels ==
    /\ call = NoCall
    /\ \E r \in {relax_label_positions(canvas, label_data_of(aircrafts, canvas),
                                     [k \in {} |-> NoBox],
                                     DEFAULT_ITERATIONS, DEFAULT_MOVE_LIMIT)} :
       /\ canvas' = r.canvas
       /\ call' = [fn |-> "relax_label_positions",
                   args |-> [canvas |-> canvas,
                             iterations |-> DEFAULT_ITERATIONS,
                             move_limit |-> DEFAULT_MOVE_LIMIT],
                   raised |-> FALSE,
                   result |-> [passes |-> r.passes, map |-> r.map]]
       /\ UNCHANGED <<aircrafts, label_leaders>>
       /\ LabelsUnchanged

NextLabels ==
    \/ \E a \in Places["A1"], b \in Places["B2"], c \in Places["C3"],
          show \in BOOLEAN :
            DrawItems(("A1" :> a) @@ ("B2" :> b) @@ ("C3" :> c), show)
    \/ ResolveLabels
    \/ RelaxLabels

SpecLabels == InitLabels /\ [][NextLabels]_vars

---------------------------------------------------------------------------
(* The registry fed records of one aircraft that carry any of the four     *)
(* altitude fields, each absent, null, 0 or a height of its own.           *)

AltitudeFields == <<"altitude", "alt_baro", "alt_geom", "alt">>

\* what a record has in an altitude field: nothing (the field is absent),
\* null, 0, or the height given for the field
AltitudeValues(height) == {<<>>, <<None>>, <<N(0)>>, <<N(height)>>}

\* the JSON object with the position of RecA1 and the altitude fields given
AltitudeRecord(altitude, alt_baro, alt_geom, alt) ==
    LET given == <<altitude, alt_baro, alt_geom, alt>>
        carried == {i \in 1..4 : given[i] # <<>>}
    IN [f \in {AltitudeFields[i] : i \in carried} |->
            given[CHOOSE i \in carried : AltitudeFields[i] = f][1]]
       @@ ("hex" :> S("A1")) @@ ("lat" :> N(48)) @@ ("lon" :> N(2))

AltitudeRecords ==
    {AltitudeRecord(a, b, g, o) :
        a \in AltitudeValues(5000), b \in AltitudeValues(3000),
        g \in AltitudeValues(3100), o \in AltitudeValues(2900)}

\* Aircrafts.update_aircrafts on a snapshot of one such record
UpdateAltitude(raw) ==
    /\ aircrafts' = update_aircrafts(aircrafts, <<raw>>, trail_length, now)
    /\ last_op' = Op("update_aircrafts", NoRemoved, FALSE, RejectedIds(<<raw>>),
                     << <<raw>> >>, last_op.ingested = << <<raw>> >>)
    /\ UNCHANGED <<aircraft_canvas_items, canvas_ids, aircraft_trails,
                   prediction_lines, label_leaders, now, outside>>

NextAltitude == \E raw \in AltitudeRecords : UpdateAltitude(raw)

SpecAltitude == Init /\ [][NextAltitude]_vars

---------------------------------------------------------------------------
(* One Aircraft and its trail: an entity created with any capacity, then   *)
(* any sequence of update_trail calls.                                     *)

Capacities == 0..MaxCapacity

\* canvas positions passed to update_trail
TrailPoints == {<<400, 400>>, <<400, 184>>, <<400, 67>>}

InitTrail ==
    /\ \E c \in Capacities : aircrafts = ("A1" :> AircraftInit("A1", RecA1, c, 0))
    /\ aircraft_canvas_items = {}
    /\ canvas_ids = {}
    /\ aircraft_trails = [k \in {} |-> <<>>]
    /\ prediction_lines = {}
    /\ label_leaders = {}
    /\ now = 0
    /\ last_op = NoOp
    /\ trail_length = TrailLength
    /\ trail_log = <<>>
    /\ running = TRUE
    /\ alive = FALSE
    /\ last_seen_time = 0
    /\ latest_data = L(<<>>)
    /\ lock = ""
    /\ fetch_pc = "loop"
    /\ fetch_data = None
    /\ app_running = TRUE
    /\ prev_update = 0
    /\ paused = FALSE
    /\ ui_pc = "idle"
    /\ scheduled = TRUE
    /\ src_op = NoSrcOp
    /\ call = NoCall
    /\ canvas = EmptyCanvas

\* Aircraft.update_trail(x, y) on the aircraft hexid
UpdateTrail(hexid, x, y) ==
    /\ Len(trail_log) < MaxAppends
    /\ aircrafts' = [aircrafts EXCEPT ![hexid] = update_trail(@, x, y)]
    /\ trail_log' = Append(trail_log, <<x, y, aircrafts[hexid].altitude>>)
    /\ UNCHANGED <<aircraft_canvas_items, canvas_ids, aircraft_trails,
                   prediction_lines, label_leaders, now, last_op, trail_length,
                   srcvars, appvars, src_op, call, canvas>>

NextTrail == \E p \in TrailPoints : UpdateTrail("A1", p[1], p[2])

SpecTrail == InitTrail /\ [][NextTrail]_vars

---------------------------------------------------------------------------
(* Claims *)

RecordsOf(data) == {data[i] : i \in 1..Len(data)}

\* the identities that own an entry of one of the five renderer-side dicts
Owners ==
    aircraft_canvas_items \cup canvas_ids \cup DOMAIN aircraft_trails
        \cup prediction_lines \cup label_leaders

\* the step is a call of update_aircrafts(data)
Ingests(data) == last_op'.ingested = <<data>> /\ UpdateAircrafts(data)

\* the step is a UI tick that reads data
Ticks(data) == last_op'.name = "update_frame" /\ UpdateFrame(data)

\* the state is the one a clean_data call returns in, alone or in a UI tick
Cleaned == last_op.name \in {"clean_data", "update_frame"}

\* C1: after every step the registry holds one entity per identity and each
\* entity's hex is the key it is stored under; a call of update_aircrafts
\* keeps every tracked entity, with its hex and its trail (contents and
\* capacity) unchanged, and adds entities only under the identities of the
\* records of its data.
C1_OnePerIdentity ==
    [][/\ \A k \in DOMAIN aircrafts' : aircrafts'[k].hex = k
       /\ \A k1, k2 \in DOMAIN aircrafts' :
            aircrafts'[k1].hex = aircrafts'[k2].hex => k1 = k2
       /\ \A data \in Snapshots : Ingests(data) =>
            /\ \A k \in DOMAIN aircrafts :
                /\ k \in DOMAIN aircrafts'
                /\ aircrafts'[k].hex = aircrafts[k].hex
                /\ aircrafts'[k].trail = aircrafts[k].trail
                /\ aircrafts'[k].maxlen = aircrafts[k].maxlen
            /\ DOMAIN aircrafts' \subseteq
                 DOMAIN aircrafts \cup {Identity(r) : r \in RecordsOf(data)}]_vars

\* A1 was created by a record without callsign and drawn at latitude 48,
\* then updated in place by the record at latitude 49: its trail still ends
\* with the sample of the old position.
C1_Witness ==
    /\ "A1" \in DOMAIN aircrafts
    /\ aircrafts["A1"].hex = "A1"
    /\ aircrafts["A1"].callsign = S("")
    /\ aircrafts["A1"].lat = N(49)
    /\ aircrafts["A1"].trail # <<>>
    /\ aircrafts["A1"].trail[Len(aircrafts["A1"].trail)][2] = CANVAS_SIZE \div 2
    /\ last_op.name = "update_aircrafts"

\* C2: when a tick has ingested a snapshot and evicted, every entity left in
\* the registry is one the snapshot mentions: an entity absent from the most
\* recently ingested snapshot is removed by the next clean_data.
C2_WentSilent ==
    [][\A data \in Snapshots : Ticks(data) =>
            DOMAIN aircrafts' \subseteq {Identity(r) : r \in RecordsOf(data)}]_vars

\* C3: clean_data removes every entity whose last update is more than 60
\* seconds old, and keeps every entity whose last update is less than 60
\* seconds old, whose recorded distance is within the range and whose raw
\* seen value is at most 60.
C3_StalenessWindow ==
    [][(last_op'.name = "clean_data" /\ CleanData) =>
        \A k \in DOMAIN aircrafts :
            LET ac == aircrafts[k]
            IN /\ now - ac.last_behavior > 60 => k \notin DOMAIN aircrafts'
               /\ ( /\ now - ac.last_behavior < 60
                    /\ ac.distance_km <= MAX_RANGE_KM
                    /\ (IsNum(ac.last_seen) => ac.last_seen.n <= 60) )
                  => k \in DOMAIN aircrafts']_vars

\* clean_data, called 61 seconds after the last update of an entity, has
\* just removed it for staleness.
C3_Witness ==
    /\ last_op.name = "clean_data"
    /\ \E k \in DOMAIN last_op.removed :
        /\ last_op.removed[k].reason = "stale"
        /\ now - last_op.removed[k].last_behavior = 61
        /\ k \notin DOMAIN aircrafts

Kinematics(ac) == <<ac.lat, ac.lon, ac.altitude, ac.speed, ac.track, ac.vert_rate>>

\* C4: a call of update_aircrafts leaves last_behavior untouched for every
\* entity whose position, altitude, speed, track and vertical rate are the
\* same after the call as before.
C4_UnchangedKeepsClock ==
    [][\A data \in Snapshots : Ingests(data) =>
        \A k \in DOMAIN aircrafts \cap DOMAIN aircrafts' :
            Kinematics(aircrafts'[k]) = Kinematics(aircrafts[k])
                => aircrafts'[k].last_behavior = aircrafts[k].last_behavior]_vars

\* C5: every clean_data call and every UI tick completes without raising and
\* leaves each owner of a renderer-side entry tracked in the registry, also
\* when an identity has canvas items but no entity.
C5_ResourcesTracked ==
    Cleaned => (~last_op.raised /\ Owners \subseteq DOMAIN aircrafts)

\* the distance of an entity's current position from the observer
CurrentDistance(ac) == haversine_km(RADAR_LAT, RADAR_LON, ac.lat.n, ac.lon.n)

\* C6: when clean_data returns, alone or within a UI tick, no entity whose
\* current position is farther from the observer than the range is left in
\* the registry.
C6_RangeEviction ==
    Cleaned => \A k \in DOMAIN aircrafts :
                    CurrentDistance(aircrafts[k]) <= MAX_RANGE_KM

NoIdentity(r) ==
    /\ ~Truthy(Get(r, "hex"))
    /\ ~Truthy(Get(r, "icao24"))
    /\ ~Truthy(Get(r, "flight"))
    /\ ~Truthy(Get(r, "id"))

\* C7: a call of update_aircrafts whose records all lack an identity leaves
\* the registry unchanged.
C7_AnonymousDropped ==
    [][\A data \in Snapshots : Ingests(data) =>
            ((\A r \in RecordsOf(data) : NoIdentity(r)) => aircrafts' = aircrafts)]_vars

BothCoordinates(r) == Truthy(Get(r, "lat")) /\ Truthy(Get(r, "lon"))
SomeCoordinate(r) == Truthy(Get(r, "lat")) \/ Truthy(Get(r, "lon"))

RECURSIVE UpdatedIds(_, _)
UpdatedIds(keys, data) ==
    IF data = <<>> THEN {}
    ELSE LET ac == Head(data)
             hexid == Identity(ac)
         IN IF ~HasPosition(ac) THEN UpdatedIds(keys, Tail(data))
            ELSE (IF hexid \in keys THEN {hexid} ELSE {})
                 \cup UpdatedIds(keys \cup {hexid}, Tail(data))

\* the last record of the data that update_aircrafts processes for hexid
LastRecordFor(data, hexid) ==
    data[CHOOSE i \in 1..Len(data) :
            /\ HasPosition(data[i]) /\ Identity(data[i]) = hexid
            /\ \A j \in (i + 1)..Len(data) :
                ~(HasPosition(data[j]) /\ Identity(data[j]) = hexid)]

\* C9: after update_aircrafts, every entity that was updated by a record of
\* the data has the callsign, registration and category of the last such
\* record.
C9_LastWriteWins ==
    [][\A data \in Snapshots : Ingests(data) =>
        \A k \in UpdatedIds(DOMAIN aircrafts, data) :
            LET r == LastRecordFor(data, k)
            IN /\ aircrafts'[k].callsign = Or(Or(Get(r, "flight"), Get(r, "callsign")), S(""))
               /\ aircrafts'[k].registration = Or(Or(Get(r, "reg"), Get(r, "registration")), S(""))
               /\ aircrafts'[k].category = Upper(Or(Get(r, "category"), S("")))]_vars

\* what C10 compares: identities and, per entity, metadata, kinematics, trail
RegistryView(acs) ==
    [k \in DOMAIN acs |->
        <<acs[k].callsign, acs[k].registration, acs[k].category,
          Kinematics(acs[k]), acs[k].trail>>]

\* C10: in the state a call of update_aircrafts(data) returns in, ingesting
\* data once more, at once or after the clock has advanced, leaves
\* identities, metadata, kinematics and trails as they are.
C10_IngestIdempotent ==
    last_op.name = "update_aircrafts" =>
        \A t \in {now} \cup {now + d : d \in ClockSteps} :
            RegistryView(update_aircrafts(aircrafts, last_op.ingested[1], trail_length, t))
                = RegistryView(aircrafts)

\* the snapshot with two records of A1 has just been ingested twice in a
\* row, A1 having a trail
C10_Witness ==
    /\ last_op.repeat
    /\ last_op.ingested = << <<RecA1, RecA1b>> >>
    /\ aircrafts["A1"].trail # <<>>

Min(a, b) == IF a < b THEN a ELSE b

\* C11: an entity created with capacity C that has had N update_trail calls
\* has a trail of length min(N, C) holding the last min(N, C) samples
\* passed, in the order they were passed; with C = 0 the trail is empty.
C11_TrailCapacity ==
    \A k \in DOMAIN aircrafts :
        LET cap == aircrafts[k].maxlen
            calls == Len(trail_log)
            trail == aircrafts[k].trail
        IN /\ Len(trail) = Min(calls, cap)
           /\ trail = SubSeq(trail_log, calls - Min(calls, cap) + 1, calls)
           /\ cap = 0 => trail = <<>>

\* an entity of capacity 2 after three update_trail calls with three
\* different positions: the first sample is gone, the other two are kept
C11_Witness ==
    /\ "A1" \in DOMAIN aircrafts
    /\ aircrafts["A1"].maxlen = 2
    /\ Len(trail_log) = 3
    /\ Cardinality({trail_log[i] : i \in 1..3}) = 3
    /\ aircrafts["A1"].trail = <<trail_log[2], trail_log[3]>>

\* C12: after every UI tick no entity's trail is longer than the trail
\* length the control is set to.
C12_TrailWithinLength ==
    last_op.name = "update_frame" =>
        \A k \in DOMAIN aircrafts : Len(aircrafts[k].trail) <= trail_length

\* C13: the Clear Trails button completes without raising and leaves every
\* tracked entity with an empty trail.
C13_ClearTrails ==
    last_op.name = "clear_trails" =>
        /\ ~last_op.raised
        /\ \A k \in DOMAIN aircrafts : aircrafts[k].trail = <<>>

\* C14: clean_data, alone or within a UI tick, removes no entity on account
\* of its raw seen value: no entity that was updated within the last 60
\* seconds and is within range is removed.
C14_SeenIsOpaque ==
    Cleaned => \A k \in DOMAIN last_op.removed : last_op.removed[k].reason # "seen"

\* C15: every step that reads or writes latest_data is taken by a thread
\* that holds the lock of the source.
C15_SlotUnderLock ==
    src_op.access # "" => src_op.locked

\* C16: when a fetch attempt is complete (the fetch thread is at its sleep),
\* alive tells whether the attempt succeeded and latest_data is the payload
\* of the most recent attempt that succeeded.
C16_AliveIffSuccess ==
    fetch_pc = "sleep" =>
        /\ alive <=> (src_op.fetched # <<>>)
        /\ latest_data = src_op.published

\* C17: no step of the UI thread raises, and as long as the application is
\* running a callback of schedule_update is pending.
C17_RenderingSurvives ==
    /\ src_op.thread = "ui" => ~src_op.raised
    /\ app_running => scheduled

\* C18: once the application is stopped, the fetch thread eventually leaves
\* the while loop of _loop.
C18_FetchLoopEnds ==
    (~app_running) ~> (fetch_pc = "done")

\* the raw seen value of an entity is one clean_data evicts for
SeenEvicts(ac) == IsNum(ac.last_seen) /\ ac.last_seen.n > SEEN_LIMIT

\* C19: a UI tick ingests, then evicts, then projects.  Ingest comes first:
\* an entity the tick updates is judged by eviction on its refreshed
\* timestamp, so it stays (its distance of the previous tick being within
\* range) however old its previous update, it is the same entity, and the
\* tick appends the new sample to the trail it had.  Eviction comes before
\* projection: an entity the tick creates is judged on the distance 0 it is
\* created with and stays whatever its position, every entity the tick
\* removes is left without renderer-side entry, and every entity that
\* remains has the distance and the bearing of its current position.
C19_TickOrder ==
    [][\A data \in Snapshots : Ticks(data) =>
        /\ \A k \in UpdatedIds(DOMAIN aircrafts, data) \cap DOMAIN aircrafts :
              (aircrafts[k].distance_km <= MAX_RANGE_KM
                    /\ ~SeenEvicts(update_from_raw(aircrafts[k], LastRecordFor(data, k), now)))
              => /\ k \in DOMAIN aircrafts'
                 /\ aircrafts'[k].last_behavior = now
                 /\ LET ac == aircrafts'[k]
                        g == geo_to_canvas(ac.lat.n, ac.lon.n, MAX_RANGE_KM)
                    IN ac.trail = IF g.dkm > MAX_RANGE_KM THEN aircrafts[k].trail
                                  ELSE DequeAppend(aircrafts[k].trail, aircrafts[k].maxlen,
                                                   <<g.x, g.y, ac.altitude>>)
        /\ \A r \in RecordsOf(data) :
              (HasPosition(r) /\ Identity(r) \notin DOMAIN aircrafts
                    /\ ~SeenEvicts(update_from_raw(Unset, LastRecordFor(data, Identity(r)), now)))
              => Identity(r) \in DOMAIN aircrafts'
        /\ \A k \in DOMAIN last_op'.removed :
              k \notin DOMAIN aircrafts' /\ k \notin Owners'
        /\ \A k \in DOMAIN aircrafts' :
              /\ aircrafts'[k].distance_km = CurrentDistance(aircrafts'[k])
              /\ aircrafts'[k].bearing_deg =
                    bearing_deg(RADAR_LAT, RADAR_LON, aircrafts'[k].lat.n, aircrafts'[k].lon.n)]_vars

\* one tick, 61 seconds after B2 was last updated, has ingested the record
\* of A1, evicted B2 for staleness and projected A1, whose trail got its
\* second sample
C19_Witness ==
    /\ last_op.name = "update_frame"
    /\ now = 61
    /\ "B2" \in DOMAIN last_op.removed
    /\ last_op.removed["B2"].reason = "stale"
    /\ "B2" \notin DOMAIN aircrafts
    /\ "A1" \in DOMAIN aircrafts
    /\ aircrafts["A1"].last_behavior = now
    /\ Len(aircrafts["A1"].trail) = 2
    /\ aircrafts["A1"].distance_km = CurrentDistance(aircrafts["A1"])

\* a call with a max range of zero or a canvas dimension of zero
ZeroCall ==
    /\ call.fn # ""
    /\ \/ call.args.max_range = 0
       \/ "width" \in DOMAIN call.args /\ call.args.width = 0
       \/ "canvas_width" \in DOMAIN call.args /\ call.args.canvas_width = 0
       \/ "canvas_height" \in DOMAIN call.args /\ call.args.canvas_height = 0

\* C20: no call of km_to_pixels, compute_zoom or compute_osm_zoom with a max
\* range of zero or a canvas dimension of zero raises.
C20_NoDivisionByZero ==
    ZeroCall => ~call.raised

\* C21: haversine_km is symmetric, the distance from A to B equals the
\* distance from B to A, and the distance from a point to itself is zero
HaversineCall == call.fn \in {"haversine_km", "Utils.haversine_km"}

C21_HaversineSymmetric ==
    HaversineCall =>
        LET a == call.args
        IN /\ ~call.raised
           /\ call.result = haversine_km(a.lat2, a.lon2, a.lat1, a.lon1)
           /\ (a.lat1 = a.lat2 /\ a.lon1 = a.lon2) => call.result = 0

C21_Witness ==
    /\ HaversineCall
    /\ call.args.lat1 # call.args.lat2
    /\ call.args.lon1 # call.args.lon2
    /\ call.result > 0

ResolveCall == call.fn = "resolve_labels_and_draw_leaders"

\* two boxes with a gap between them: they neither overlap nor touch
Apart(a, b) == a[3] < b[1] \/ b[3] < a[1] \/ a[4] < b[2] \/ b[4] < a[2]

\* the box of the label of hexid on the canvas cv when the label is put at
\* candidate c of the spiral
CandidateBox(cv, hexid, c) ==
    LET it == cv.item[hexid]
        x == it.cx + SpiralOffsets[c][1]
        y == it.cy + SpiralOffsets[c][2]
    IN <<x, y, x + it.w, y + it.h>>

\* the box of the label of hexid where it is on the canvas cv
LabelBox(cv, hexid) ==
    LET it == cv.item[hexid] IN <<it.lx, it.ly, it.lx + it.w, it.ly + it.h>>

\* C22: the spiral phase takes the labels in descending priority (nearest
\* aircraft first); each label that has a box ends at the first candidate,
\* in generation order from (+10, +10), whose box is apart from every box
\* placed before it, and at the last candidate only when no candidate is;
\* after the phase every label is still at the candidate it was given
C22_SpiralPlacement ==
    ResolveCall =>
        LET before == call.args.canvas
            ld == call.result.label_data
            tried == call.result.tried
            spiral == call.result.spiral
            last == Len(SpiralOffsets)
            Boxed(i) == before.item[ld[i].hex].shown
            Given(i) == CandidateBox(before, ld[i].hex, tried[ld[i].hex])
            Clear(i, c) ==
                \A j \in 1..(i - 1) :
                    Boxed(j) => Apart(CandidateBox(before, ld[i].hex, c), Given(j))
        IN /\ SpiralOffsets[1] = <<10, 10>>
           /\ {ld[i].hex : i \in 1..Len(ld)} = DOMAIN before.item
           /\ Len(ld) = Cardinality(DOMAIN before.item)
           /\ \A i, j \in 1..Len(ld) : i < j => ld[i].km <= ld[j].km
           /\ \A i \in 1..Len(ld) :
                Boxed(i) =>
                    /\ \A c \in 1..(tried[ld[i].hex] - 1) : ~Clear(i, c)
                    /\ Clear(i, tried[ld[i].hex])
                        \/ (tried[ld[i].hex] = last /\ \A c \in 1..last : ~Clear(i, c))
                    /\ LabelBox(spiral, ld[i].hex) = Given(i)

\* one call with a label kept at the default offset, and a label for which
\* every candidate overlaps, left at the last one
C22_Witness ==
    /\ ResolveCall
    /\ \E k \in DOMAIN call.result.tried :
            call.args.canvas.item[k].shown /\ call.result.tried[k] = 1
    /\ \E k \in DOMAIN call.result.tried :
            /\ call.args.canvas.item[k].shown
            /\ call.result.tried[k] = Len(SpiralOffsets)

\* a label moved off the default offset to a candidate before the last
C22_Moved ==
    /\ ResolveCall
    /\ \E k \in DOMAIN call.result.tried :
            /\ call.args.canvas.item[k].shown
            /\ call.result.tried[k] \in 2..(Len(SpiralOffsets) - 1)

\* every label has a box and the boxes at the default offset are pairwise
\* apart
WidelySpaced(cv) ==
    /\ \A k \in DOMAIN cv.item : cv.item[k].shown
    /\ \A a, b \in DOMAIN cv.item :
            a # b => Apart(CandidateBox(cv, a, 1), CandidateBox(cv, b, 1))

\* C23: when the boxes at the default offset are pairwise apart, the call
\* leaves every label at the default offset, finds no overlap, runs no
\* relaxation and leaves no leader line
C23_WidelySpaced ==
    (ResolveCall /\ WidelySpaced(call.args.canvas)) =>
        /\ ~call.raised
        /\ \A k \in DOMAIN canvas.item :
                /\ call.result.tried[k] = 1
                /\ canvas.item[k].lx = canvas.item[k].cx + 10
                /\ canvas.item[k].ly = canvas.item[k].cy + 10
        /\ ~call.result.need_relax
        /\ call.result.passes = <<>>
        /\ label_leaders = {}
        /\ DOMAIN canvas.leader = {}

\* anchors (100, 100) and (700, 700) among widely spaced ones, with a
\* leader left by an earlier call
C23_Witness ==
    /\ ResolveCall
    /\ WidelySpaced(call.args.canvas)
    /\ \E k \in DOMAIN canvas.item : canvas.item[k].cx = 100 /\ canvas.item[k].cy = 100
    /\ \E k \in DOMAIN canvas.item : canvas.item[k].cx = 700 /\ canvas.item[k].cy = 700
    /\ call.args.label_leaders # {}

RelaxCall == call.fn = "relax_label_positions"

\* the iterations a call allows the relaxation
Iterations == IF RelaxCall THEN call.args.iterations ELSE RELAX_ITERATIONS

\* the move_limit a call gives the relaxation
MoveLimit == IF RelaxCall THEN call.args.move_limit ELSE RELAX_MOVE_LIMIT

\* C24: the relaxation makes at most `iterations` passes (8 from
\* resolve_labels_and_draw_leaders), makes a pass after another only if
\* that one moved a label, and resolve_labels_and_draw_leaders runs it only
\* when two boxes overlap after the spiral phase
C24_RelaxTerminates ==
    (ResolveCall \/ RelaxCall) =>
        LET passes == call.result.passes
        IN /\ Len(passes) <= Iterations
           /\ \A k \in 1..(Len(passes) - 1) :
                /\ passes[k].moved_any
                /\ \E h \in DOMAIN passes[k].shift : passes[k].shift[h] # <<0, 0>>
           /\ (ResolveCall /\ passes # <<>>) =>
                \E a, b \in DOMAIN call.result.tried :
                    /\ a # b
                    /\ call.args.canvas.item[a].shown
                    /\ call.args.canvas.item[b].shown
                    /\ ~Apart(LabelBox(call.result.spiral, a),
                              LabelBox(call.result.spiral, b))

\* a relaxation from resolve_labels_and_draw_leaders that stopped early,
\* after more than one pass
C24_Witness ==
    /\ ResolveCall
    /\ Len(call.result.passes) \in 2..(RELAX_ITERATIONS - 1)

\* a relaxation that used every pass it was allowed
C24_AllPasses ==
    /\ ResolveCall \/ RelaxCall
    /\ Len(call.result.passes) = Iterations

\* C25: within one pass of the relaxation no label is moved by more than
\* move_limit pixels along an axis
C25_MoveLimit ==
    (ResolveCall \/ RelaxCall) =>
        \A k \in 1..Len(call.result.passes) :
            \A h \in DOMAIN call.result.passes[k].shift :
                /\ Abs(call.result.passes[k].shift[h][1]) <= MoveLimit
                /\ Abs(call.result.passes[k].shift[h][2]) <= MoveLimit

\* the square of the distance from the anchor of hexid to the closest point
\* of the box of its label on the canvas cv
LeaderDist2(cv, hexid) ==
    LET it == cv.item[hexid]
        b == LabelBox(cv, hexid)
        px == IF it.cx < b[1] THEN b[1] ELSE IF it.cx > b[3] THEN b[3] ELSE it.cx
        py == IF it.cy < b[2] THEN b[2] ELSE IF it.cy > b[4] THEN b[4] ELSE it.cy
    IN (px - it.cx) * (px - it.cx) + (py - it.cy) * (py - it.cy)

\* C26: resolve_labels_and_draw_leaders returns without error, also when a
\* label has no box, and on return a label with a box has a leader line
\* exactly when its anchor is more than 15 pixels from the closest point of
\* the box; a leader that was there is updated, a missing one created, an
\* unneeded one deleted
C26_Leaders ==
    ResolveCall =>
        /\ ~call.raised
        /\ \A k \in DOMAIN canvas.item :
                canvas.item[k].shown =>
                    LET far == LeaderDist2(canvas, k) > 15 * 15
                        had == k \in call.args.label_leaders
                    IN /\ k \in label_leaders <=> far
                       /\ k \in DOMAIN canvas.leader <=> far
                       /\ k \in call.result.created <=> (far /\ ~had)
                       /\ k \in call.result.updated <=> (far /\ had)
                       /\ k \in call.result.deleted <=> (~far /\ had)

\* the call with every label boxed: leaders created, updated and deleted
C26_Boxed ==
    (ResolveCall /\ \A k \in DOMAIN canvas.item : canvas.item[k].shown) =>
        C26_Leaders

\* the first of the four altitude fields of a record that is not null (an
\* absent field reads as null), None when there is none
FirstNonNull(raw) ==
    LET held == {i \in 1..4 : Get(raw, AltitudeFields[i]) # None}
    IN IF held = {} THEN None
       ELSE Get(raw, AltitudeFields[CHOOSE i \in held : \A j \in held : i <= j])

\* C27: after an update from a record the stored altitude is the first
\* non-null value among altitude, alt_baro, alt_geom and alt; an altitude of
\* 0 is stored as 0
C27_AltitudeFirstNonNull ==
    (last_op.name = "update_aircrafts" /\ "A1" \in DOMAIN aircrafts) =>
        aircrafts["A1"].altitude = FirstNonNull(last_op.ingested[1][1])

\* the same for the records that report no altitude of 0
C27_NonZero ==
    (/\ last_op.name = "update_aircrafts"
     /\ "A1" \in DOMAIN aircrafts
     /\ \A i \in 1..4 : Get(last_op.ingested[1][1], AltitudeFields[i]) # N(0)) =>
        aircrafts["A1"].altitude = FirstNonNull(last_op.ingested[1][1])

\* the fetch thread is outside _process: every snapshot it fetched is
\* published
FetchCompleted == fetch_pc \notin {"stamp", "acquire", "write", "release"}

\* C28: a tick that is not paused and runs after a successful fetch has
\* completed updates the registry from the snapshot of that fetch or of a
\* later one: no tick returns on an unchanged stamp while the snapshot that
\* was published last has not been read
C28_NoSnapshotSkipped ==
    (src_op.name = "unchanged" /\ FetchCompleted) => ~src_op.unread

\* from the last fetch attempt on the source does not answer
SourceDown == src_op.fetched = <<>>

\* a tracked aircraft whose last report is more than STALE_SECONDS old
Overdue(k) == k \in DOMAIN aircrafts /\ now - aircrafts[k].last_behavior > STALE_SECONDS

\* C29: while the application runs, is not paused and its ticks fire, an
\* aircraft that is no longer reported is eventually removed, also when the
\* source stops answering altogether: an aircraft whose last report is
\* overdue is removed, or else the source answers again
C29_SilentRemoved ==
    Overdue("A1") ~> ("A1" \notin DOMAIN aircrafts \/ ~SourceDown)

\* the polyline of k has the points of the trail of k
SameAsTrail(k) == aircraft_trails[k] = TrailXY(aircrafts[k].trail)

\* C30: after a tick, for every aircraft with a trail polyline, the polyline
\* has the same points as the bounded trail of the entity, so no more
\* points than the trail capacity and none that the trail has evicted
C30_PolylineIsTrail ==
    (last_op.name = "update_frame" /\ ~last_op.raised) =>
        \A k \in DOMAIN aircraft_trails \cap DOMAIN aircrafts : SameAsTrail(k)

====
